---- MODULE Spec2Model ----
(***************************************************************************)
(* A model of the effect-evaluation engine of lvh/effect: the Effect value *)
(* and its callback chain, the _Box completion sink, perform with its      *)
(* _perform / _run_callbacks steps driven by the trampoline, sync_perform, *)
(* the TypeDispatcher lookup and the demonstration intents.                *)
(***************************************************************************)
EXTENDS Integers, Sequences, FiniteSets, TLC

VARIABLES
    pc,              \* "build": the application builds the Effect; "run": the
                     \* trampoline loop is running; "idle": control is outside the core
    effect,          \* the Effect the application has built
    mode,            \* the entry point called: "none", "perform", "sync_perform"
    recurse_effects, \* perform's recurse_effects argument
    driver,          \* the call that drives the trampoline: "perform" or "box"
    queue,           \* the trampoline's work queue of bounces
    log,             \* history: one entry per handler pair consumed by _run_callbacks
    performed,       \* history: the intents handed to the dispatcher, in order
    boxes,           \* the boxes a performer kept without settling them
    successes,       \* sync_perform's successes list
    errors,          \* sync_perform's errors list
    outcome,         \* how the perform / sync_perform call ended
    raised,          \* the exception that left the last call into the core, if any
    dispatcher,      \* the dispatcher perform is given
    calls,           \* history: the performers the dispatcher called, in order
    maxdepth,        \* history: the most step invocations active at once
    objects,         \* the Effect objects the application holds, as they are now
    settles,         \* history: the calls of box.succeed / box.fail, in order
    deferred,        \* the Deferred effect.twisted.perform returned
    mock             \* the box a performer called on its own is given

vars == <<pc, effect, mode, recurse_effects, driver, queue, log, performed,
          boxes, successes, errors, outcome, raised, dispatcher, calls,
          maxdepth, objects, settles, deferred, mock>>

----------------------------------------------------------------------------
(* Bounds of the model *)

\* the most .on() attachments the application makes on the root Effect
MaxChain == 2

\* the deepest nesting of Effects resolving to Effects
MaxDepth == 3

\* the most settlements of one Box
MaxSettle == 2

\* the most boxes kept unsettled in one run, when a box is settled with an
\* Effect whose performer keeps its box again
MaxBoxes == 2

\* the most dispatchers a ComposedDispatcher is made of
MaxDispatchers == 3

----------------------------------------------------------------------------
(* Values *)

Val(n) == [tag |-> "val", n |-> n]

NoneV == [tag |-> "none"]

\* an exc_info triple (type, value, traceback)
ExcInfo(type, value, tb) == [tag |-> "exc", type |-> type, value |-> value, tb |-> tb]

\* Effect(intent, callbacks)
Effect(intent, callbacks) == [tag |-> "eff", intent |-> intent, callbacks |-> callbacks]

ConstantIntent(result) == [type |-> "ConstantIntent", result |-> result]

ErrorIntent(exception) == [type |-> "ErrorIntent", exception |-> exception]

\* an intent whose performer keeps the box and returns
POPOIntent == [type |-> "POPOIntent"]

\* an intent whose performer raises instead of settling its box
RaisingIntent == [type |-> "RaisingIntent"]

\* an intent no performer is registered for
ObjectIntent == [type |-> "object"]

\* exceptions: [type, value]
OhDear == [type |-> "ValueError", value |-> "oh dear"]

EbError == [type |-> "ValueError", value |-> "eb error"]

PerformerBoom == [type |-> "RuntimeError", value |-> "boom"]

----------------------------------------------------------------------------
(* Handlers: the callables attached with .on() *)

NoHandler == [k |-> "None"]

\* lambda x: r
Ret(r) == [k |-> "ret", r |-> r]

\* lambda x: x
Ident == [k |-> "id"]

\* lambda x: raise_(exc)
Raise(exc) == [k |-> "raise", exc |-> exc]

\* sync_perform's success and error collectors
CollectSuccess == [k |-> "collect_s"]

CollectError == [k |-> "collect_e"]

\* the handlers effect.twisted.perform attaches: d.callback, and
\* lambda e: d.errback(exc_info_to_failure(e))
DCallback == [k |-> "d_callback"]

DErrback == [k |-> "d_errback"]

Pair(id, success, error) == [id |-> id, success |-> success, error |-> error]

\* Effect.on: a new Effect, the chain with the pair appended
On(e, id, success, error) ==
    Effect(e.intent, e.callbacks \o <<Pair(id, success, error)>>)

----------------------------------------------------------------------------
(* Calling a handler, and guarded invocation *)

\* what calling handler cb with argument x does: it returns v or raises v
Call(cb, x) ==
    CASE cb.k = "ret" -> [raised |-> FALSE, v |-> cb.r]
      [] cb.k = "id" -> [raised |-> FALSE, v |-> x]
      [] cb.k = "raise" -> [raised |-> TRUE, v |-> cb.exc]
      [] cb.k \in {"collect_s", "collect_e"} -> [raised |-> FALSE, v |-> NoneV]
      [] cb.k \in {"d_callback", "d_errback"} -> [raised |-> FALSE, v |-> NoneV]

\* guard with the exception returned as if it were the function's result
guard_NoError(cb, x) ==
    LET r == Call(cb, x)
    IN  IF r.raised
        THEN [is_error |-> FALSE, value |-> ExcInfo(r.v.type, r.v.value, "handler")]
        ELSE [is_error |-> FALSE, value |-> r.v]

\* guard(f, *args): (is_error, result); an exception becomes sys.exc_info()
guard(cb, x) ==
    LET r == Call(cb, x)
    IN  IF r.raised
        THEN [is_error |-> TRUE, value |-> ExcInfo(r.v.type, r.v.value, "handler")]
        ELSE [is_error |-> FALSE, value |-> r.v]

----------------------------------------------------------------------------
(* The world the steps of perform act on: the part of the state a step may *)
(* change, threaded through the operators below.  exc is the live          *)
(* exception of the running call, NoExc when there is none.                *)

NoExc == [type |-> "none", value |-> ""]

NoEffectHandlerError == [type |-> "NoEffectHandlerError", value |-> "No handler found"]

NotSynchronousError == [type |-> "NotSynchronousError", value |-> "was not synchronous"]

World ==
    [queue |-> queue, log |-> log, performed |-> performed, boxes |-> boxes,
     successes |-> successes, errors |-> errors, calls |-> calls,
     depth |-> 0, maxdepth |-> maxdepth, objects |-> objects,
     settles |-> settles, deferred |-> deferred, exc |-> NoExc]

\* a step function (_perform, _run_callbacks) is entered: one more invocation
\* is active
Enter(w) ==
    [w EXCEPT !.depth = @ + 1,
              !.maxdepth = IF w.depth + 1 > @ THEN w.depth + 1 ELSE @]

\* a step function returns or is left by an exception
Leave(w) == [w EXCEPT !.depth = @ - 1]

PerformBounce(e) == [fn |-> "_perform", effect |-> e]

RunCallbacksBounce(chain, result) ==
    [fn |-> "_run_callbacks", chain |-> chain, result |-> result]

\* bouncer.bounce(func, *args): the step is recorded on the work queue, not called
bounce(w, b) == [w EXCEPT !.queue = Append(@, b)]

\* the pair indexed the wrong way round
SelectHandler_Swapped(pair, is_error) == IF is_error THEN pair.success ELSE pair.error

\* chain[0][is_error]: the pair is (success, error), indexed by the outcome kind
SelectHandler(pair, is_error) == IF is_error THEN pair.error ELSE pair.success

\* twisted's Failure(exc_value, exc_type, exc_tb)
Failure(exc_value, exc_type, exc_tb) ==
    [tag |-> "failure", type |-> exc_type, value |-> exc_value, tb |-> exc_tb]

\* the exc_info tuple handed to Failure in its own order
exc_info_to_failure_SameOrder(exc_info) ==
    Failure(exc_info.type, exc_info.value, exc_info.tb)

\* exc_info_to_failure(exc_info): Failure(exc_info[1], exc_info[0], exc_info[2])
exc_info_to_failure(exc_info) ==
    Failure(exc_info.value, exc_info.type, exc_info.tb)

\* d.callback(result) / d.errback(failure) on the Deferred twisted.perform
\* returns: the first call fires it, and every call is counted
FireDeferred(d, result) ==
    [called |-> d.called + 1, result |-> IF d.called = 0 THEN result ELSE d.result]

\* the side effect of calling a handler: sync_perform's collectors append,
\* twisted.perform's handlers fire its Deferred
CallEffect(w, cb, x) ==
    CASE cb.k = "collect_s" -> [w EXCEPT !.successes = Append(@, x)]
      [] cb.k = "collect_e" -> [w EXCEPT !.errors = Append(@, x)]
      [] cb.k = "d_callback" ->
            [w EXCEPT !.deferred = FireDeferred(@, [is_error |-> FALSE, value |-> x])]
      [] cb.k = "d_errback" ->
            [w EXCEPT !.deferred =
                FireDeferred(@, [is_error |-> TRUE, value |-> exc_info_to_failure(x)])]
      [] OTHER -> w

\* the inner Effect performed without the rest of the outer chain
Flatten_DropsChain(value, chain) == Effect(value.intent, value.callbacks)

\* the inner Effect with the outer chain put before its own
Flatten_OuterFirst(value, chain) == Effect(value.intent, chain \o value.callbacks)

\* Effect(value.intent, callbacks=value.callbacks + chain): the Effect a
\* resolved Effect is flattened into
Flatten(value, chain) == Effect(value.intent, value.callbacks \o chain)

\* the result of a handler kept an error once the chain was in error
NextResult_StickyError(cb, result) ==
    IF cb # NoHandler
    THEN [is_error |-> result.is_error \/ guard(cb, result.value).is_error,
          value |-> guard(cb, result.value).value]
    ELSE result

\* if cb is not None: result = guard(cb, value)
NextResult(cb, result) ==
    IF cb # NoHandler THEN guard(cb, result.value) ELSE result

\* value.callbacks + chain builds a new list: flattening reads the resolved
\* Effect and writes no Effect object
FlattenObjects(objs, value, chain) == objs

\* the flag ignored: every resolved Effect is flattened
ShouldFlatten_Always(value) == value.tag = "eff"

\* if recurse_effects and type(value) is Effect
ShouldFlatten(value) == recurse_effects /\ value.tag = "eff"

RECURSIVE RunCallbacksBody_Direct(_, _, _)
\* _run_callbacks calling itself on the rest of the chain instead of bouncing
RunCallbacksBody_Direct(w, chain, result) ==
    IF ShouldFlatten(result.value)
    THEN bounce(w, PerformBounce(Flatten(result.value, chain)))
    ELSE IF chain = <<>>
    THEN w
    ELSE LET cb == SelectHandler(chain[1], result.is_error)
             result2 == NextResult(cb, result)
             entry == [id |-> chain[1].id, is_error |-> result.is_error,
                       value |-> result.value, cb |-> cb,
                       out |-> result2]
             w1 == IF cb # NoHandler THEN CallEffect(w, cb, result.value) ELSE w
             w2 == [w1 EXCEPT !.log = Append(@, entry)]
         IN  Leave(RunCallbacksBody_Direct(Enter(w2), Tail(chain), result2))

\* _run_callbacks returning at a pair whose handler for the outcome is absent,
\* the rest of the chain left unconsumed
RunCallbacksBody_StopsAtNone(w, chain, result) ==
    IF ShouldFlatten(result.value)
    THEN bounce([w EXCEPT !.objects = FlattenObjects(@, result.value, chain)],
                PerformBounce(Flatten(result.value, chain)))
    ELSE IF chain = <<>>
    THEN w
    ELSE LET cb == SelectHandler(chain[1], result.is_error)
             result2 == NextResult(cb, result)
             entry == [id |-> chain[1].id, is_error |-> result.is_error,
                       value |-> result.value, cb |-> cb,
                       out |-> result2]
         IN  IF cb = NoHandler
             THEN [w EXCEPT !.log = Append(@, entry)]
             ELSE bounce([CallEffect(w, cb, result.value) EXCEPT !.log = Append(@, entry)],
                         RunCallbacksBounce(Tail(chain), result2))

\* the body of perform._run_callbacks(bouncer, chain, result)
RunCallbacksBody(w, chain, result) ==
    IF ShouldFlatten(result.value)
    THEN bounce([w EXCEPT !.objects = FlattenObjects(@, result.value, chain)],
                PerformBounce(Flatten(result.value, chain)))
    ELSE IF chain = <<>>
    THEN w
    ELSE LET cb == SelectHandler(chain[1], result.is_error)
             called == cb # NoHandler
             result2 == NextResult(cb, result)
             entry == [id |-> chain[1].id, is_error |-> result.is_error,
                       value |-> result.value, cb |-> cb,
                       out |-> result2]
             w1 == IF called THEN CallEffect(w, cb, result.value) ELSE w
             w2 == [w1 EXCEPT !.log = Append(@, entry)]
         IN  bounce(w2, RunCallbacksBounce(Tail(chain), result2))

\* perform._run_callbacks(bouncer, chain, result): one invocation of the step
RunCallbacks(w, chain, result) == Leave(RunCallbacksBody(Enter(w), chain, result))

\* _Box(cont): the box _perform makes for the id-th intent handed to the
\* dispatcher; its continuation is _run_callbacks on the chain
Box(id, chain) == [kind |-> "_Box", id |-> id, chain |-> chain]

Settled(w, box, is_error, result) ==
    [w EXCEPT !.settles = Append(@, [box |-> box.id, is_error |-> is_error,
                                     value |-> result])]

\* _Box.succeed(result): self._cont((False, result))
BoxSucceed(w, box, result) ==
    RunCallbacks(Settled(w, box, FALSE, result), box.chain,
                 [is_error |-> FALSE, value |-> result])

\* _Box.fail handing the failure to the continuation as a success
BoxFail_AsSuccess(w, box, result) ==
    RunCallbacks(Settled(w, box, TRUE, result), box.chain,
                 [is_error |-> FALSE, value |-> result])

\* _Box.fail(result): self._cont((True, result))
BoxFail(w, box, result) ==
    RunCallbacks(Settled(w, box, TRUE, result), box.chain,
                 [is_error |-> TRUE, value |-> result])

\* a box that is not a _Box: it records the call, and its continuation may raise
MockBox(succeed_raises, fail_raises) ==
    [kind |-> "mock", id |-> 0, succeed_raises |-> succeed_raises,
     fail_raises |-> fail_raises]

\* box.succeed(result) on whatever box the performer was given
Succeed(w, box, result) ==
    IF box.kind = "mock"
    THEN [Settled(w, box, FALSE, result) EXCEPT !.exc = box.succeed_raises]
    ELSE BoxSucceed(w, box, result)

\* box.fail(result) on whatever box the performer was given
Fail(w, box, result) ==
    IF box.kind = "mock"
    THEN [Settled(w, box, TRUE, result) EXCEPT !.exc = box.fail_raises]
    ELSE BoxFail(w, box, result)

----------------------------------------------------------------------------
(* Performers and the dispatcher *)

\* perform_constant, perform_error: the function sync_performer wraps
PerformerBody(name, intent) ==
    CASE name = "perform_constant" -> [raised |-> FALSE, v |-> intent.result]
      [] name = "perform_error" -> [raised |-> TRUE, v |-> intent.exception]
      [] name = "perform_other" -> [raised |-> FALSE, v |-> Val(9)]

\* sync_performer(f).inner: try: box.succeed(f(...)) except: box.fail(exc_info)
SyncPerformer(w, name, intent, box) ==
    LET r == PerformerBody(name, intent)
    IN  IF r.raised
        THEN Fail(w, box, ExcInfo(r.v.type, r.v.value, "performer"))
        ELSE LET w1 == Succeed(w, box, r.v)
             IN  IF w1.exc # NoExc
                 THEN Fail([w1 EXCEPT !.exc = NoExc], box,
                           ExcInfo(w1.exc.type, w1.exc.value, "box"))
                 ELSE w1

\* a performer that keeps the box and returns without settling it; results
\* records what the box is settled with later
KeepBox(w, box) ==
    [w EXCEPT !.boxes = Append(@, [id |-> box.id, chain |-> box.chain,
                                   settled |-> 0, results |-> <<>>,
                                   origin |-> "kept"])]

\* a Deferred: fired with a result, failed with a Failure, or not fired yet
Deferred(state, result) == [tag |-> "deferred", state |-> state, result |-> result]

\* a list value
ListV(items) == [tag |-> "list", items |-> items]

NameError == [type |-> "NameError", value |-> "name 'twisted_dispatcher' is not defined"]

\* perform_parallel(reactor, parallel): the list comprehension evaluates the
\* name twisted_dispatcher for each sub-effect, and the module never binds
\* that name: with one sub-effect or more NameError is raised before any of
\* them is performed; with none gatherResults([]) is a Deferred fired with []
perform_parallel(intent) ==
    IF intent.effects = <<>>
    THEN [raised |-> FALSE, v |-> Deferred("fired", ListV(<<>>))]
    ELSE [raised |-> TRUE, v |-> NameError]

\* perform_delay(reactor, delay): deferLater(reactor, delay.delay, lambda: None)
perform_delay(intent) == [raised |-> FALSE, v |-> Deferred("pending", NoneV)]

\* the function deferred_performer wraps: what it does for the intent
DeferredBody(name, intent) ==
    CASE name = "perform_parallel" -> perform_parallel(intent)
      [] name = "perform_delay" -> perform_delay(intent)
      [] name = "deferred_fn" -> intent.does

\* the Failure handed to box.fail as it is
FailureTriple_Whole(f) == f

\* lambda f: (f.type, f.value, f.tb)
FailureTriple(f) == ExcInfo(f.type, f.value, f.tb)

\* deferred_to_box(d, box): d.addCallbacks(box.succeed, lambda f: box.fail(...)).
\* On a Deferred that has its result the callback runs at once, and what it
\* raises stays in the Deferred; on one that has none the box waits for it
deferred_to_box(w, name, d, box) ==
    CASE d.state = "fired" -> [Succeed(w, box, d.result) EXCEPT !.exc = NoExc]
      [] d.state = "failed" ->
            [Fail(w, box, FailureTriple(d.result)) EXCEPT !.exc = NoExc]
      [] d.state = "pending" ->
            [w EXCEPT !.boxes = Append(@, [id |-> box.id, chain |-> box.chain,
                                           settled |-> 0, results |-> <<>>,
                                           origin |-> name])]

\* deferred_performer(f).inner: try: result = f(...) except: box.fail(exc_info)
\* else: deferred_to_box(result, box) for a Deferred, box.succeed(result) else
DeferredPerformer(w, name, intent, box) ==
    LET r == DeferredBody(name, intent)
    IN  IF r.raised
        THEN Fail(w, box, ExcInfo(r.v.type, r.v.value, "performer"))
        ELSE IF r.v.tag = "deferred"
        THEN deferred_to_box(w, name, r.v, box)
        ELSE Succeed(w, box, r.v)

\* a performer that raises without settling its box
RaisingPerformer(w) == [w EXCEPT !.exc = PerformerBoom]

\* a performer out of which NoEffectHandlerError comes, as when it hands an
\* intent of its own to a dispatcher that has no performer for it
NoHandlerPerformer(w) == [w EXCEPT !.exc = NoEffectHandlerError]

\* the mapping of the TypeDispatcher: intent type -> performer
mapping ==
    [t \in {"ConstantIntent", "ErrorIntent", "POPOIntent", "RaisingIntent"} |->
        CASE t = "ConstantIntent" -> "perform_constant"
          [] t = "ErrorIntent" -> "perform_error"
          [] t = "POPOIntent" -> "keep_box"
          [] t = "RaisingIntent" -> "raising"]

\* self.mapping[type(intent)](intent, box): the performer is called
RunPerformer(w0, name, intent, box) ==
    LET w == [w0 EXCEPT !.calls = Append(@, name)]
    IN  CASE name \in {"perform_constant", "perform_error", "perform_other"} ->
                SyncPerformer(w, name, intent, box)
          [] name = "keep_box" -> KeepBox(w, box)
          [] name = "raising" -> RaisingPerformer(w)
          [] name = "raise_no_handler" -> NoHandlerPerformer(w)
          [] name \in {"perform_parallel", "perform_delay", "deferred_fn"} ->
                DeferredPerformer(w, name, intent, box)

\* a missing entry reported to the box as a failure instead of raised
Dispatch_FailsBox(w, m, intent, box) ==
    IF intent.type \notin DOMAIN m
    THEN BoxFail(w, box,
                 ExcInfo(NoEffectHandlerError.type, NoEffectHandlerError.value, "dispatcher"))
    ELSE RunPerformer(w, m[intent.type], intent, box)

\* TypeDispatcher.__call__ with mapping m: no entry for the intent's type
\* raises NoEffectHandlerError, else the performer is called with the intent
\* and the box
Dispatch(w, m, intent, box) ==
    IF intent.type \notin DOMAIN m
    THEN [w EXCEPT !.exc = NoEffectHandlerError]
    ELSE RunPerformer(w, m[intent.type], intent, box)

TypeDispatcher(m) == [kind |-> "TypeDispatcher", mapping |-> m]

ComposedDispatcher(ds) == [kind |-> "ComposedDispatcher", dispatchers |-> ds]

RECURSIVE ComposedFrom(_, _, _, _, _)
\* the loop of ComposedDispatcher.__call__ from the i-th dispatcher on: the
\* call of a dispatcher is inside the try, so a NoEffectHandlerError that
\* leaves it, from the lookup or from the performer, moves on to the next
\* dispatcher; the else of the for raises NoEffectHandlerError
ComposedFrom(w, ds, i, intent, box) ==
    IF i > Len(ds)
    THEN [w EXCEPT !.exc = NoEffectHandlerError]
    ELSE LET w1 == Dispatch(w, ds[i].mapping, intent, box)
         IN  IF w1.exc = NoEffectHandlerError
             THEN ComposedFrom([w1 EXCEPT !.exc = NoExc], ds, i + 1, intent, box)
             ELSE w1

\* the dispatchers tried from the last to the first
ComposedDispatch_LastFirst(w, ds, intent, box) ==
    ComposedFrom(w, [i \in 1..Len(ds) |-> ds[Len(ds) + 1 - i]], 1, intent, box)

\* ComposedDispatcher.__call__(intent, box)
ComposedDispatch(w, ds, intent, box) == ComposedFrom(w, ds, 1, intent, box)

\* dispatcher(dispatcher, effect.intent, box)
CallDispatcher(w, d, intent, box) ==
    IF d.kind = "TypeDispatcher"
    THEN Dispatch(w, d.mapping, intent, box)
    ELSE ComposedDispatch(w, d.dispatchers, intent, box)

\* _perform catching what the dispatcher raises and failing the box with it
PerformEffect_Guarded(w, e) ==
    LET w1 == Enter([w EXCEPT !.performed = Append(@, e.intent)])
        box == Box(Len(w1.performed), e.callbacks)
        w2 == CallDispatcher(w1, dispatcher, e.intent, box)
    IN  Leave(IF w2.exc # NoExc
              THEN BoxFail([w2 EXCEPT !.exc = NoExc], box,
                           ExcInfo(w2.exc.type, w2.exc.value, "dispatcher"))
              ELSE w2)

\* perform._perform(bouncer, effect): the dispatcher is called with the intent
\* and a _Box whose continuation is _run_callbacks on the effect's callbacks.
\* The dispatcher perform is given is taken to be a callable of (dispatcher,
\* intent, box) that finds the performer by the intent's type, as
\* TypeDispatcher does, and calls it.
PerformEffect(w, e) ==
    LET w1 == Enter([w EXCEPT !.performed = Append(@, e.intent)])
    IN  Leave(CallDispatcher(w1, dispatcher, e.intent,
                             Box(Len(w1.performed), e.callbacks)))

\* one bounce run by the trampoline
RunStep(w, b) ==
    IF b.fn = "_perform"
    THEN PerformEffect(w, b.effect)
    ELSE RunCallbacks(w, b.chain, b.result)

----------------------------------------------------------------------------
(* The inputs: the Effects the application builds *)

RECURSIVE Nest(_)
\* an Effect nested d levels deep around the value 0:
\* Effect(ConstantIntent(Effect(ConstantIntent(... 0))))
Nest(d) == IF d = 0 THEN Val(0) ELSE Effect(ConstantIntent(Nest(d - 1)), <<>>)

\* an inner Effect with a chain of its own
InnerChained ==
    Effect(ConstantIntent(Val(1)),
           <<Pair(11, Ret(Val(4)), NoHandler), Pair(12, NoHandler, Ident)>>)

\* an inner Effect whose performer fails
InnerError == Effect(ErrorIntent(OhDear), <<>>)

\* an inner Effect whose performer fails, with a chain the error passes
InnerErrorChained == Effect(ErrorIntent(OhDear), <<Pair(13, Ret(Val(2)), NoHandler)>>)

\* an inner Effect whose performer keeps its box
InnerAsync == Effect(POPOIntent, <<>>)

\* an inner Effect no performer is registered for
InnerUnknown == Effect(ObjectIntent, <<>>)

InnerEffects == {InnerChained, InnerError, InnerErrorChained, InnerAsync, InnerUnknown}

\* the inner Effects as the objects the application made, in the order made
InnerObjects == <<InnerChained, InnerError, InnerErrorChained, InnerAsync, InnerUnknown>>

RootIntents ==
    {ConstantIntent(Nest(d)) : d \in 0..MaxDepth}
    \cup {ConstantIntent(b) : b \in InnerEffects}
    \cup {ErrorIntent(OhDear), POPOIntent, ObjectIntent, RaisingIntent}

SuccessHandlers == {NoHandler, Ret(Val(2)), Raise(EbError), Ret(InnerChained)}

ErrorHandlers == {NoHandler, Ret(Val(3)), Raise(EbError), Ident}

\* what a kept box is settled with from outside
Settlements ==
    {[is_error |-> FALSE, value |-> Val(5)],
     [is_error |-> TRUE, value |-> ExcInfo("IOError", "late", "async")]}

----------------------------------------------------------------------------
(* The state machine *)

Outcome(kind, value, exc, tb) == [kind |-> kind, value |-> value, exc |-> exc, tb |-> tb]

Pending == Outcome("pending", NoneV, NoExc, "")

\* a Deferred nobody has fired
NoDeferred == [called |-> 0, result |-> NoneV]

\* no box is given to a performer from outside perform
NoMock == [kind |-> "none"]

\* the state before the application has attached a handler or called the
\* core: the Effect is one of roots, the dispatcher is d, the box for a
\* performer called on its own is one of mocks
InitWith(roots, d, mocks) ==
    /\ pc = "build"
    /\ effect \in roots
    /\ mode = "none"
    /\ recurse_effects = TRUE
    /\ driver = "none"
    /\ queue = <<>>
    /\ log = <<>>
    /\ performed = <<>>
    /\ boxes = <<>>
    /\ successes = <<>>
    /\ errors = <<>>
    /\ outcome = Pending
    /\ raised = NoExc
    /\ dispatcher = d
    /\ calls = <<>>
    /\ maxdepth = 0
    /\ objects = InnerObjects \o <<effect>>
    /\ settles = <<>>
    /\ deferred = NoDeferred
    /\ mock \in mocks

Init ==
    InitWith({Effect(i, <<>>) : i \in RootIntents}, TypeDispatcher(mapping), {NoMock})

\* .on() appending the pair to the receiver's own list and sharing it
OnObjects_InPlace(objs, i, id, success, error) ==
    Append([objs EXCEPT ![i] = On(objs[i], id, success, error)],
           On(objs[i], id, success, error))

\* objs[i].on(success, error): Effect(self.intent, callbacks=self.callbacks +
\* [(success, error)]) is a new object; the receiver is read, not written
OnObjects(objs, i, id, success, error) ==
    Append(objs, On(objs[i], id, success, error))

\* effect = effect.on(success=s, error=e): the application's name is bound to
\* the object .on() made
Attach(s, e) ==
    /\ pc = "build"
    /\ Len(effect.callbacks) < MaxChain
    /\ objects' = OnObjects(objects, Len(objects), Len(effect.callbacks) + 1, s, e)
    /\ effect' = objects'[Len(objects')]
    /\ UNCHANGED <<pc, mode, recurse_effects, driver, queue, log, performed,
                   boxes, successes, errors, outcome, raised, dispatcher, calls,
                   maxdepth, settles, deferred, mock>>

\* trampoline(f, *args): the first bounce is put on the work queue and the
\* loop starts
trampoline(b) == <<b>>

\* perform(dispatcher, effect, recurse_effects): trampoline(_perform, effect)
Perform(re) ==
    /\ pc = "build"
    /\ pc' = "run"
    /\ mode' = "perform"
    /\ recurse_effects' = re
    /\ driver' = "perform"
    /\ queue' = trampoline(PerformBounce(effect))
    /\ UNCHANGED <<effect, log, performed, boxes, successes, errors, outcome, raised,
                   dispatcher, calls, maxdepth, objects, settles, deferred, mock>>

\* sync_perform(dispatcher, effect, recurse_effects): the collectors are
\* attached and perform is called
SyncPerform(re) ==
    /\ pc = "build"
    /\ pc' = "run"
    /\ mode' = "sync_perform"
    /\ recurse_effects' = re
    /\ driver' = "perform"
    /\ objects' = OnObjects(objects, Len(objects), Len(effect.callbacks) + 1,
                            CollectSuccess, CollectError)
    /\ queue' = trampoline(PerformBounce(objects'[Len(objects')]))
    /\ UNCHANGED <<effect, log, performed, boxes, successes, errors, outcome, raised,
                   dispatcher, calls, maxdepth, settles, deferred, mock>>

\* a recorded error returned as the value instead of raised
SyncResult_ReturnsError(succ, errs) ==
    IF succ # <<>>
    THEN Outcome("returned", succ[1], NoExc, "")
    ELSE IF errs # <<>>
    THEN Outcome("returned", errs[1], NoExc, "")
    ELSE Outcome("raised", NoneV, NotSynchronousError, "sync_perform")

\* nothing recorded taken for a result of None
SyncResult_NoCheck(succ, errs) ==
    IF succ # <<>>
    THEN Outcome("returned", succ[1], NoExc, "")
    ELSE IF errs # <<>>
    THEN Outcome("raised", NoneV, [type |-> errs[1].type, value |-> errs[1].value],
                 errs[1].tb)
    ELSE Outcome("returned", NoneV, NoExc, "")

\* the rest of sync_perform once perform has returned
SyncResult(succ, errs) ==
    IF succ # <<>>
    THEN Outcome("returned", succ[1], NoExc, "")
    ELSE IF errs # <<>>
    THEN Outcome("raised", NoneV, [type |-> errs[1].type, value |-> errs[1].value],
                 errs[1].tb)
    ELSE Outcome("raised", NoneV, NotSynchronousError, "sync_perform")

\* the world a step leaves becomes the state
Commit(w) ==
    /\ log' = w.log
    /\ performed' = w.performed
    /\ boxes' = w.boxes
    /\ successes' = w.successes
    /\ errors' = w.errors
    /\ calls' = w.calls
    /\ maxdepth' = w.maxdepth
    /\ objects' = w.objects
    /\ settles' = w.settles
    /\ deferred' = w.deferred

\* one turn of the trampoline's loop: the next bounce is taken off the queue
\* and run; an exception it raises leaves the loop and the driving call
RunBounce ==
    /\ pc = "run"
    /\ queue # <<>>
    /\ \E w \in {RunStep([World EXCEPT !.queue = Tail(queue)], Head(queue))} :
           /\ Commit(w)
           /\ IF w.exc # NoExc
              THEN /\ pc' = "idle"
                   /\ queue' = <<>>
                   /\ raised' = w.exc
                   /\ outcome' = IF driver = "perform"
                                 THEN Outcome("raised", NoneV, w.exc, "")
                                 ELSE outcome
              ELSE /\ queue' = w.queue
                   /\ UNCHANGED <<pc, raised, outcome>>
    /\ UNCHANGED <<effect, mode, recurse_effects, driver, dispatcher, mock>>

\* the work queue is empty: the loop ends and the driving call returns
Return ==
    /\ pc = "run"
    /\ queue = <<>>
    /\ pc' = "idle"
    /\ outcome' = IF driver # "perform" THEN outcome
                  ELSE IF mode = "perform" THEN Outcome("returned", NoneV, NoExc, "")
                  ELSE IF mode = "twisted_perform"
                  THEN Outcome("returned", [tag |-> "the Deferred"], NoExc, "")
                  ELSE SyncResult(successes, errors)
    /\ raised' = IF driver = "perform" THEN outcome'.exc ELSE NoExc
    /\ UNCHANGED <<effect, mode, recurse_effects, driver, queue, log, performed,
                   boxes, successes, errors, dispatcher, calls, maxdepth, objects,
                   settles, deferred, mock>>

\* box.succeed(value) / box.fail(exc_info) on box i, called from outside the
\* core: the continuation runs and the trampoline is driven again
SettleBox(i, result) ==
    LET w0 == [World EXCEPT !.boxes[i].settled = @ + 1,
                            !.boxes[i].results = Append(@, result)]
        box == Box(boxes[i].id, boxes[i].chain)
    IN  \E w \in {IF result.is_error
                  THEN BoxFail(w0, box, result.value)
                  ELSE BoxSucceed(w0, box, result.value)} :
        /\ Commit(w)
        /\ queue' = w.queue
        /\ pc' = "run"
        /\ driver' = "box"
        /\ raised' = NoExc
        /\ UNCHANGED <<effect, mode, recurse_effects, outcome, dispatcher, mock>>

\* a performer that kept its box settles it, once
Settle(i, result) ==
    /\ pc = "idle"
    /\ i \in 1..Len(boxes)
    /\ boxes[i].settled = 0
    /\ boxes[i].origin = "kept"
    /\ result.value.tag = "eff" => Len(boxes) < MaxBoxes
    /\ SettleBox(i, result)

\* a box that was settled is settled again
SettleAgain(i, result) ==
    /\ pc = "idle"
    /\ i \in 1..Len(boxes)
    /\ boxes[i].settled >= 1
    /\ boxes[i].settled < MaxSettle
    /\ result.value.tag = "eff" => Len(boxes) < MaxBoxes
    /\ SettleBox(i, result)

Next ==
    \/ \E s \in SuccessHandlers, e \in ErrorHandlers : Attach(s, e)
    \/ \E re \in BOOLEAN : Perform(re)
    \/ \E re \in BOOLEAN : SyncPerform(re)
    \/ RunBounce
    \/ Return
    \/ \E i \in 1..Len(boxes), r \in Settlements : Settle(i, r)

Spec == Init /\ [][Next]_vars

\* the program with performers that break the contract by settling a box again
NextResettle ==
    \/ Next
    \/ \E i \in 1..Len(boxes), r \in Settlements : SettleAgain(i, r)

SpecResettle == Init /\ [][NextResettle]_vars

----------------------------------------------------------------------------
(* Reading the history *)

\* the chain perform was given: the application's pairs, then sync_perform's
\* collector pair
RootChain ==
    IF mode = "sync_perform"
    THEN effect.callbacks \o
         <<Pair(Len(effect.callbacks) + 1, CollectSuccess, CollectError)>>
    ELSE IF mode = "twisted_perform"
    THEN effect.callbacks \o <<Pair(Len(effect.callbacks) + 1, DCallback, DErrback)>>
    ELSE effect.callbacks

IsRootId(id) == id \in 1..Len(RootChain)

\* the entries of the log for the pairs of the root chain
RootLog == SelectSeq(log, LAMBDA en : IsRootId(en.id))

\* the pairs of the inner Effects
InnerPairs == UNION {{b.callbacks[j] : j \in 1..Len(b.callbacks)} : b \in InnerEffects}

\* the pair an entry of the log is about
PairOf(en) ==
    IF IsRootId(en.id) THEN RootChain[en.id]
    ELSE CHOOSE p \in InnerPairs : p.id = en.id

\* C1: the pairs of an Effect built by N .on() attachments are consumed in
\* attachment order, pair k right after pair k-1 among the root pairs; the
\* handler selected from a pair is the one for the current outcome kind; an
\* absent handler leaves (is_error, value) unchanged for the next pair.
C1_ChainOrder ==
    /\ \A i \in 1..Len(RootLog) : RootLog[i].id = i
    /\ \A i \in 1..Len(log) :
          /\ log[i].cb = (IF log[i].is_error THEN PairOf(log[i]).error
                          ELSE PairOf(log[i]).success)
          /\ log[i].cb = NoHandler =>
                /\ log[i].out = [is_error |-> log[i].is_error, value |-> log[i].value]
                /\ i < Len(log) =>
                      /\ log[i + 1].is_error = log[i].is_error
                      /\ log[i + 1].value = log[i].value

\* a full chain has been consumed, its first pair skipped and its second applied
C1_Witness ==
    /\ Len(effect.callbacks) = MaxChain
    /\ Len(RootLog) >= MaxChain
    /\ RootLog[1].cb = NoHandler
    /\ RootLog[MaxChain].cb # NoHandler
    /\ RootLog[MaxChain].is_error

\* C2: a Box that is settled a second time rejects or ignores it: no pair of
\* the root chain is consumed more than once in one perform.
C2_BoxSettledOnce ==
    \A i, j \in 1..Len(log) :
        (i # j /\ IsRootId(log[i].id)) => log[i].id # log[j].id

\* C3: with flattening on, no handler ever receives an Effect and an Effect
\* a handler returned has been performed once the loop has run out of work;
\* sync_perform of an Effect nested d levels deep with no handlers performs
\* each level in turn and returns the innermost value.
C3_Flattening ==
    /\ recurse_effects =>
          /\ \A i \in 1..Len(log) :
                /\ log[i].value.tag # "eff"
                /\ (log[i].out.value.tag = "eff" /\ pc = "idle") =>
                      \E k \in 2..Len(performed) : performed[k] = log[i].out.value.intent
          /\ outcome.value.tag # "eff"
    /\ \A d \in 0..MaxDepth :
          (/\ recurse_effects
           /\ mode = "sync_perform"
           /\ effect = Nest(d + 1)
           /\ outcome # Pending) =>
              /\ outcome = Outcome("returned", Val(0), NoExc, "")
              /\ Len(performed) = d + 1
              /\ \A k \in 1..(d + 1) : performed[k] = Nest(d + 2 - k).intent

\* sync_perform of the deepest nesting has returned
C3_Witness ==
    /\ recurse_effects
    /\ mode = "sync_perform"
    /\ effect = Nest(MaxDepth + 1)
    /\ outcome.kind = "returned"
    /\ Len(performed) = MaxDepth + 1

\* the index in the log after which the pairs of an Effect the chain was
\* flattened into are consumed: 0 for the root performer's result, i for the
\* result of the handler of entry i
FlattenedAt(i) == IF i = 0 THEN effect.intent.result ELSE log[i].out.value

FlattenPoints ==
    {i \in 0..Len(log) :
        /\ recurse_effects
        /\ i = 0 => (mode # "none" /\ effect.intent.type = "ConstantIntent")
        /\ FlattenedAt(i).tag = "eff"}

\* C4: when an Effect resolves to an Effect B, the pairs of B's own chain
\* are consumed, in order, before any remaining pair of the outer chain; and
\* when B's performer fails, the first outer pair is consumed with B's error
\* info, its error handler is the one invoked, and nothing is raised.
C4_OuterAfterInner ==
    /\ \A i \in FlattenPoints :
          \A j \in 1..Len(FlattenedAt(i).callbacks) :
              i + j <= Len(log) => log[i + j].id = FlattenedAt(i).callbacks[j].id
    /\ (/\ recurse_effects
        /\ mode # "none"
        /\ effect.intent \in {ConstantIntent(InnerError), ConstantIntent(InnerErrorChained)}
        /\ effect.callbacks # <<>>) =>
          /\ RootLog # <<>> =>
                /\ RootLog[1].is_error
                /\ RootLog[1].value = ExcInfo(OhDear.type, OhDear.value, "performer")
                /\ RootLog[1].cb = effect.callbacks[1].error
          /\ outcome # Pending => RootLog # <<>>
          /\ (mode = "perform" /\ outcome # Pending) => outcome.kind = "returned"

\* the outer error handler has been invoked with the error of the inner
\* Effect, after the inner Effect's own pair was passed
C4_Witness ==
    /\ effect.intent = ConstantIntent(InnerErrorChained)
    /\ Len(log) >= 2
    /\ log[1].id = 13
    /\ log[2].id = 1
    /\ log[2].cb = Ident
    /\ log[2].value = ExcInfo(OhDear.type, OhDear.value, "performer")

----------------------------------------------------------------------------
(* Errors *)

\* every performer reached so far settled its box before it returned
AllSynchronous ==
    \A k \in 1..Len(performed) : performed[k].type \in {"ConstantIntent", "ErrorIntent"}

\* the entries of the log where sync_perform's collector pair was consumed
CollectorEntries == {i \in 1..Len(log) : log[i].cb \in {CollectSuccess, CollectError}}

\* C5: sync_perform of an Effect whose performers all settle synchronously
\* returns the value the chain ended with when it ended in success and
\* raises the exception (same type, value and traceback) the chain ended
\* with when it ended in error, never the other way round; an ErrorIntent
\* whose error no handler consumes is raised as that very exception.
C5_SyncPerformResult ==
    (mode = "sync_perform" /\ outcome # Pending /\ AllSynchronous) =>
        /\ Cardinality(CollectorEntries) = 1
        /\ \A i \in CollectorEntries :
              /\ i = Len(log)
              /\ ~log[i].is_error =>
                    outcome = Outcome("returned", log[i].value, NoExc, "")
              /\ log[i].is_error =>
                    outcome = Outcome("raised", NoneV,
                                      [type |-> log[i].value.type,
                                       value |-> log[i].value.value],
                                      log[i].value.tb)
        /\ (/\ effect.intent = ErrorIntent(OhDear)
            /\ \A k \in 1..Len(effect.callbacks) : effect.callbacks[k].error = NoHandler) =>
              outcome = Outcome("raised", NoneV, OhDear, "performer")
        /\ (/\ effect.intent = ConstantIntent(Val(0))
            /\ \A k \in 1..Len(effect.callbacks) : effect.callbacks[k].success = NoHandler) =>
              outcome = Outcome("returned", Val(0), NoExc, "")

\* sync_perform has raised the error of an ErrorIntent that passed a full
\* chain of success handlers
C5_Witness ==
    /\ mode = "sync_perform"
    /\ effect.intent = ErrorIntent(OhDear)
    /\ Len(effect.callbacks) = MaxChain
    /\ \A k \in 1..Len(effect.callbacks) :
          effect.callbacks[k] = Pair(k, Ret(Val(2)), NoHandler)
    /\ outcome = Outcome("raised", NoneV, OhDear, "performer")

\* a performer has kept its box and the box is still unsettled
Suspended == boxes # <<>> /\ \A i \in 1..Len(boxes) : boxes[i].settled = 0

\* C6: when a performer, the root's or one reached through the chain,
\* returns without settling its box, sync_perform raises
\* NotSynchronousError and plain perform returns; while the box is
\* unsettled no pair positioned after the suspension point has been
\* consumed and the collectors have recorded nothing.
C6_NotSynchronous ==
    /\ (mode = "sync_perform" /\ outcome # Pending /\ boxes # <<>>) =>
          outcome = Outcome("raised", NoneV, NotSynchronousError, "sync_perform")
    /\ (mode = "perform" /\ outcome # Pending /\ boxes # <<>>) =>
          outcome = Outcome("returned", NoneV, NoExc, "")
    /\ Suspended =>
          /\ \A j \in 1..Len(boxes[1].chain) :
                \A i \in 1..Len(log) : log[i].id # boxes[1].chain[j].id
          /\ successes = <<>>
          /\ errors = <<>>
          /\ pc = "idle" => outcome # Pending

\* sync_perform has raised NotSynchronousError for an Effect whose inner
\* Effect suspended, with handlers waiting after the suspension point
C6_Witness ==
    /\ mode = "sync_perform"
    /\ effect.intent = ConstantIntent(InnerAsync)
    /\ Len(effect.callbacks) = MaxChain
    /\ Suspended
    /\ outcome.exc = NotSynchronousError

C8_PerformerExceptionCaptured ==
    (mode # "none" /\ effect.intent = RaisingIntent) =>
        /\ raised # PerformerBoom
        /\ (pc = "idle" /\ effect.callbacks # <<>>) => log # <<>>

\* C9: an exception raised by a handler never leaves perform: it becomes
\* the error of the chain, is passed unchanged over pairs without an error
\* handler, is given to the next consumed pair as an error, and is the
\* exception sync_perform raises when no later error handler takes it.
C9_HandlerException ==
    /\ mode = "perform" => raised.value # EbError.value
    /\ \A i \in 1..Len(log) :
          log[i].cb.k = "raise" =>
              LET e == ExcInfo(log[i].cb.exc.type, log[i].cb.exc.value, "handler")
              IN  /\ log[i].out = [is_error |-> TRUE, value |-> e]
                  /\ i < Len(log) => (log[i + 1].is_error /\ log[i + 1].value = e)
                  /\ \A c \in (i + 1)..Len(log) :
                        (\A j \in (i + 1)..(c - 1) : log[j].cb = NoHandler) =>
                            /\ log[c].is_error
                            /\ log[c].value = e
                            /\ (/\ log[c].cb = CollectError
                                /\ boxes = <<>>
                                /\ outcome # Pending) =>
                                  outcome = Outcome("raised", NoneV, log[i].cb.exc, "handler")

\* an error handler raised while handling the original error, and
\* sync_perform raised the handler's exception
C9_Witness ==
    /\ mode = "sync_perform"
    /\ effect.intent = ErrorIntent(OhDear)
    /\ Len(log) >= 3
    /\ log[1].is_error
    /\ log[1].cb = Raise(EbError)
    /\ log[2].cb = NoHandler
    /\ log[3].cb = CollectError
    /\ outcome = Outcome("raised", NoneV, EbError, "handler")

\* the value an error handler that returns normally returns
Returned(en) == IF en.cb.k = "id" THEN en.value ELSE en.cb.r

\* C10: when an error handler is invoked with an error and returns R, the
\* chain goes on in the success state with R: the next pair consumed gets R
\* as a success, its success handler is the one selected, and sync_perform
\* returns R when that handler is its collector.
C10_ErrorRecovery ==
    \A i \in 1..Len(log) :
        (log[i].is_error /\ log[i].cb.k \in {"ret", "id"}) =>
            /\ log[i].out = [is_error |-> FALSE, value |-> Returned(log[i])]
            /\ i < Len(log) =>
                  /\ ~log[i + 1].is_error
                  /\ log[i + 1].value = Returned(log[i])
                  /\ log[i + 1].cb = PairOf(log[i + 1]).success
                  /\ (/\ log[i + 1].cb = CollectSuccess
                      /\ boxes = <<>>
                      /\ outcome # Pending) =>
                        outcome = Outcome("returned", Returned(log[i]), NoExc, "")

\* an error handler recovered with a value, the next success handler got it,
\* and sync_perform returned what that handler made of it
C10_Witness ==
    /\ mode = "sync_perform"
    /\ effect.intent = ErrorIntent(OhDear)
    /\ Len(log) >= 3
    /\ log[1].is_error
    /\ log[1].cb = Ret(Val(3))
    /\ log[2].value = Val(3)
    /\ log[2].cb = Ret(Val(2))
    /\ outcome = Outcome("returned", Val(2), NoExc, "")

----------------------------------------------------------------------------
(* The program with performers that keep their boxes, the only roots, and   *)
(* boxes settled from outside also with an Effect whose performer keeps its *)
(* box again                                                                *)

AsyncRoots == {POPOIntent, ConstantIntent(InnerAsync)}

AsyncSettlements == Settlements \cup {[is_error |-> FALSE, value |-> InnerAsync]}

InitAsync == Init /\ effect.intent \in AsyncRoots

NextAsync ==
    \/ \E s \in SuccessHandlers, e \in ErrorHandlers : Attach(s, e)
    \/ \E re \in BOOLEAN : Perform(re)
    \/ \E re \in BOOLEAN : SyncPerform(re)
    \/ RunBounce
    \/ Return
    \/ \E i \in 1..Len(boxes), r \in AsyncSettlements : Settle(i, r)

SpecAsync == InitAsync /\ [][NextAsync]_vars

----------------------------------------------------------------------------
(* C11: resumption from outside perform *)

\* the Effect perform was given: sync_perform attaches its collectors first
RootEffect == Effect(effect.intent, RootChain)

\* the world before perform has done anything
FreshWorld ==
    [World EXCEPT !.queue = trampoline(PerformBounce(RootEffect)),
                  !.log = <<>>, !.performed = <<>>, !.boxes = <<>>,
                  !.successes = <<>>, !.errors = <<>>, !.calls = <<>>,
                  !.settles = <<>>]

RECURSIVE SyncRun(_)
\* the run of the same Effect in which the performer of POPOIntent does not
\* keep its box but settles it before it returns, the n-th one with what the
\* n-th kept box was settled with from outside; where that box is still
\* unsettled the run stops as the suspended one does
SyncRun(w) ==
    IF w.exc # NoExc \/ w.queue = <<>>
    THEN w
    ELSE LET b == Head(w.queue)
             w0 == [w EXCEPT !.queue = Tail(@)]
             n == Len(w.boxes) + 1
         IN  IF b.fn = "_perform" /\ b.effect.intent.type = "POPOIntent"
             THEN LET w1 == [w0 EXCEPT !.performed = Append(@, b.effect.intent),
                                       !.boxes = Append(@, n)]
                  IN  IF n > Len(boxes) \/ boxes[n].results = <<>>
                      THEN w1
                      ELSE SyncRun(RunCallbacks(w1, b.effect.callbacks,
                                                boxes[n].results[1]))
             ELSE SyncRun(RunStep(w0, b))

\* C11: once a performer has kept its box and control is back outside the
\* core, whether the box is still unsettled or was settled from outside and
\* the chain driven on, the handlers invoked, their order and the values they
\* got and gave, the intents dispatched, what sync_perform's collectors
\* recorded and the exception that left the resumed loop, if any, are those of
\* the run in which the box is settled with the same result inside the
\* performer.
C11_AsyncResumption ==
    (pc = "idle" /\ boxes # <<>>) =>
        LET r == SyncRun(FreshWorld)
        IN  /\ log = r.log
            /\ performed = r.performed
            /\ successes = r.successes
            /\ errors = r.errors
            /\ driver = "box" => raised = r.exc

\* two boxes were kept in turn and settled from outside, and the chain driven
\* on from the second flattened an Effect a handler returned
C11_Witness ==
    /\ pc = "idle"
    /\ Len(boxes) = 2
    /\ \A i \in 1..2 : boxes[i].settled = 1
    /\ recurse_effects
    /\ \E i \in 1..Len(log) : log[i].out.value.tag = "eff"

----------------------------------------------------------------------------
(* C12: stack safety *)

\* the step invocations active at once when _perform calls the dispatcher,
\* the performer settles the box and the box calls _run_callbacks: two
StepDepth == 2

\* C12: while every performer settles its box before it returns, the most
\* step invocations (_perform, _run_callbacks) active at the same time is at
\* most StepDepth, whatever the length of the chain and the depth of nesting.
C12_StackSafety == boxes = <<>> => maxdepth <= StepDepth

\* a run of the longest chain on the deepest nesting ended with every
\* performer synchronous, and two step invocations were active at once
C12_Witness ==
    /\ pc = "idle"
    /\ boxes = <<>>
    /\ Len(performed) = MaxDepth + 1
    /\ Len(log) = MaxChain
    /\ maxdepth = StepDepth

----------------------------------------------------------------------------
(* C13: .on() and perform leave the Effects they are given as they were *)

\* the k-th Effect object of the root: the wrapped intent after k - 1 calls
\* of .on()
RootObject(k) == objects[Len(InnerObjects) + k]

\* C13: each call of .on() gives a new Effect whose chain is the receiver's
\* followed by the new pair, and every Effect object the application made,
\* the receivers of .on() and the Effects its handlers return, has the intent
\* and the callbacks it was made with, before, during and after a perform.
C13_OnLeavesReceiver ==
    /\ \A i \in 1..Len(InnerObjects) : objects[i] = InnerObjects[i]
    /\ Len(objects) = Len(InnerObjects) + Len(RootChain) + 1
    /\ RootObject(1) = Effect(effect.intent, <<>>)
    /\ \A k \in 1..Len(RootChain) :
          /\ RootObject(k + 1).intent = RootObject(k).intent
          /\ RootObject(k + 1).callbacks = RootObject(k).callbacks \o <<RootChain[k]>>

\* .on() was called MaxChain times and once more by sync_perform, and the
\* perform flattened an inner Effect with a chain of its own into the root's
C13_Witness ==
    /\ pc = "idle"
    /\ mode = "sync_perform"
    /\ Len(effect.callbacks) = MaxChain
    /\ \E i \in 1..Len(log) : ~IsRootId(log[i].id)
    /\ \E i \in 1..Len(log) : IsRootId(log[i].id)

----------------------------------------------------------------------------
(* C19: recurse_effects *)

\* how many resolutions were Effects: results of performers, of handlers and
\* of settlements from outside
ResolvedEffects ==
    Cardinality({k \in 1..Len(performed) :
                    /\ performed[k].type = "ConstantIntent"
                    /\ performed[k].result.tag = "eff"})
    + Cardinality({i \in 1..Len(log) : log[i].out.value.tag = "eff"})
    + Cardinality({i \in 1..Len(boxes) :
                    /\ boxes[i].results # <<>>
                    /\ boxes[i].results[1].value.tag = "eff"})

\* C19: with recurse_effects disabled no intent but the root's is dispatched,
\* an Effect a handler returns is what the next pair of the chain is consumed
\* with, an Effect the root's performer gives is what the first pair is
\* consumed with, and sync_perform returns the Effect its collector got.  With
\* recurse_effects enabled no pair is ever consumed with an Effect, and once
\* control is outside the core every resolved Effect has been dispatched,
\* whatever chain was left when it resolved.
C19_RecurseEffects ==
    /\ ~recurse_effects =>
          /\ Len(performed) <= 1
          /\ \A i \in 1..Len(log) - 1 :
                log[i].out.value.tag = "eff" =>
                    /\ log[i + 1].value = log[i].out.value
                    /\ log[i + 1].id = log[i].id + 1
          /\ (/\ log # <<>>
              /\ effect.intent.type = "ConstantIntent"
              /\ effect.intent.result.tag = "eff") =>
                 log[1].value = effect.intent.result
          /\ \A i \in 1..Len(log) :
                (/\ log[i].cb = CollectSuccess
                 /\ log[i].value.tag = "eff"
                 /\ pc = "idle"
                 /\ driver = "perform") =>
                    outcome = Outcome("returned", log[i].value, NoExc, "")
    /\ recurse_effects =>
          /\ \A i \in 1..Len(log) : log[i].value.tag # "eff"
          /\ outcome.value.tag # "eff"
          /\ pc = "idle" => Len(performed) = 1 + ResolvedEffects

\* with the flag disabled a handler was called with an Effect and
\* sync_perform returned that Effect
C19_Witness ==
    /\ ~recurse_effects
    /\ pc = "idle"
    /\ outcome.kind = "returned"
    /\ outcome.value.tag = "eff"
    /\ \E i \in 1..Len(log) - 1 :
          log[i].out.value.tag = "eff" /\ log[i].cb # NoHandler

\* with the flag enabled an Effect that resolved with no chain left was
\* flattened: perform of the deepest nesting with no handler attached
C19_WitnessEmptyChain ==
    /\ recurse_effects
    /\ pc = "idle"
    /\ mode = "perform"
    /\ effect.callbacks = <<>>
    /\ Len(performed) = MaxDepth + 1

----------------------------------------------------------------------------
(* The program with a ComposedDispatcher: the application composes up to    *)
(* MaxDispatchers TypeDispatchers and performs an Effect with the composite *)

\* base_dispatcher, without FuncIntent
BaseMapping ==
    [t \in {"ConstantIntent", "ErrorIntent"} |->
        IF t = "ConstantIntent" THEN "perform_constant" ELSE "perform_error"]

\* the mappings of the TypeDispatchers composed: base_dispatcher, one whose
\* performer for ConstantIntent is another one, one for ErrorIntent only, one
\* with no entry, and one whose performer lets NoEffectHandlerError out
DispatcherMappings ==
    {BaseMapping,
     [t \in {"ConstantIntent"} |-> "perform_other"],
     [t \in {"ErrorIntent"} |-> "perform_error"],
     [t \in {} |-> "none"],
     [t \in {"ConstantIntent"} |-> "raise_no_handler"]}

DispatchRoots ==
    {Effect(ConstantIntent(Val(0)), <<>>), Effect(ErrorIntent(OhDear), <<>>),
     Effect(ObjectIntent, <<>>)}

InitDispatch == InitWith(DispatchRoots, ComposedDispatcher(<<>>), {NoMock})

\* ComposedDispatcher(dispatchers + [TypeDispatcher(m)])
AddDispatcher(m) ==
    /\ pc = "build"
    /\ Len(dispatcher.dispatchers) < MaxDispatchers
    /\ dispatcher' = ComposedDispatcher(Append(dispatcher.dispatchers, TypeDispatcher(m)))
    /\ UNCHANGED <<pc, effect, mode, recurse_effects, driver, queue, log, performed,
                   boxes, successes, errors, outcome, raised, calls, maxdepth,
                   objects, settles, deferred, mock>>

NextDispatch ==
    \/ \E m \in DispatcherMappings : AddDispatcher(m)
    \/ \E re \in BOOLEAN : SyncPerform(re)
    \/ RunBounce
    \/ Return

SpecDispatch == InitDispatch /\ [][NextDispatch]_vars

----------------------------------------------------------------------------
(* C14: the order of a ComposedDispatcher *)

\* the positions of the dispatchers that have a performer for the intent
HavePerformer ==
    {i \in 1..Len(dispatcher.dispatchers) :
        effect.intent.type \in DOMAIN dispatcher.dispatchers[i].mapping}

\* the first of them
FirstWithPerformer == CHOOSE i \in HavePerformer : \A j \in HavePerformer : i <= j

\* the performer the first of them has
FirstPerformer == dispatcher.dispatchers[FirstWithPerformer].mapping[effect.intent.type]

\* C14: once the composite has been called with the intent, if no dispatcher
\* of the sequence has a performer for it (the empty sequence included) no
\* performer was called, no box was settled and NoEffectHandlerError left the
\* call; else the first performer called is the one of the first dispatcher
\* that has one, and unless NoEffectHandlerError came out of that performer
\* it is the only one called and sync_perform ends with its result.
C14_ComposedOrder ==
    performed # <<>> =>
        IF HavePerformer = {}
        THEN /\ calls = <<>>
             /\ settles = <<>>
             /\ raised = NoEffectHandlerError
             /\ outcome = Outcome("raised", NoneV, NoEffectHandlerError, "")
        ELSE /\ calls # <<>>
             /\ calls[1] = FirstPerformer
             /\ FirstPerformer # "raise_no_handler" =>
                   /\ calls = <<FirstPerformer>>
                   /\ Len(settles) = 1
                   /\ settles[1].value =
                         CASE FirstPerformer = "perform_constant" -> Val(0)
                           [] FirstPerformer = "perform_other" -> Val(9)
                           [] FirstPerformer = "perform_error" ->
                                 ExcInfo(OhDear.type, OhDear.value, "performer")
                   /\ pc = "idle" =>
                         outcome.kind = (IF settles[1].is_error THEN "raised" ELSE "returned")
                   /\ (pc = "idle" /\ ~settles[1].is_error) =>
                         outcome.value = settles[1].value

\* two dispatchers have different performers for the intent, a dispatcher
\* without one comes before them, and the earlier performer's result came out
C14_Witness ==
    /\ pc = "idle"
    /\ Cardinality(HavePerformer) >= 2
    /\ FirstWithPerformer > 1
    /\ calls = <<"perform_other">>
    /\ outcome = Outcome("returned", Val(9), NoExc, "")

----------------------------------------------------------------------------
(* The program with the Twisted bridge: effect.twisted.perform on an Effect *)
(* with the dispatcher of the tests, and Deferreds that fire later          *)

ParallelEffects(effects) == [type |-> "ParallelEffects", effects |-> effects]

\* parallel(effects): Effect(ParallelEffects(list(effects)))
parallel(effects) == Effect(ParallelEffects(effects), <<>>)

Delay(delay) == [type |-> "Delay", delay |-> delay]

\* the intent of the tests of deferred_performer, with what the wrapped
\* function does when called: raise, return a value, or return a Deferred
DeferredIntent(does) == [type |-> "meaningless", does |-> does]

\* make_twisted_dispatcher(reactor)
TwistedMapping ==
    [t \in {"ParallelEffects", "Delay"} |->
        IF t = "ParallelEffects" THEN "perform_parallel" ELSE "perform_delay"]

\* deferred_performer(lambda dispatcher, intent: ...)
DeferredMapping == [t \in {"meaningless"} |-> "deferred_fn"]

\* ComposedDispatcher([make_twisted_dispatcher(reactor), base_dispatcher]),
\* and the dispatcher of the tests of deferred_performer
TwistedDispatcher ==
    ComposedDispatcher(<<TypeDispatcher(TwistedMapping), TypeDispatcher(BaseMapping),
                         TypeDispatcher(DeferredMapping)>>)

\* what the function deferred_performer wraps may do
WrappedDoes ==
    {[raised |-> TRUE, v |-> PerformerBoom],
     [raised |-> FALSE, v |-> Val(8)],
     [raised |-> FALSE, v |-> Deferred("fired", Val(8))],
     [raised |-> FALSE, v |-> Deferred("failed", Failure("foo", "ValueError", "None"))],
     [raised |-> FALSE, v |-> Deferred("pending", NoneV)]}

\* the lists parallel() is given
ParallelInputs ==
    {<<>>,
     <<Effect(ConstantIntent(Val(6)), <<>>), Effect(ConstantIntent(Val(7)), <<>>)>>,
     <<Effect(ConstantIntent(Val(6)), <<>>), Effect(ErrorIntent(OhDear), <<>>)>>}

TwistedRoots ==
    {Effect(ConstantIntent(Val(0)), <<>>), Effect(ConstantIntent(InnerChained), <<>>),
     Effect(ErrorIntent(OhDear), <<>>), Effect(ObjectIntent, <<>>),
     Effect(Delay(1), <<>>)}
    \cup {parallel(es) : es \in ParallelInputs}
    \cup {Effect(DeferredIntent(does), <<>>) : does \in WrappedDoes}

InitTwisted == InitWith(TwistedRoots, TwistedDispatcher, {NoMock})

\* effect.twisted.perform(effect, dispatcher): d = Deferred(); the handlers
\* that fire d are attached; base perform is called; d is returned
TwistedPerform ==
    /\ pc = "build"
    /\ pc' = "run"
    /\ mode' = "twisted_perform"
    /\ recurse_effects' = TRUE
    /\ driver' = "perform"
    /\ objects' = OnObjects(objects, Len(objects), Len(effect.callbacks) + 1,
                            DCallback, DErrback)
    /\ queue' = trampoline(PerformBounce(objects'[Len(objects')]))
    /\ UNCHANGED <<effect, log, performed, boxes, successes, errors, outcome, raised,
                   dispatcher, calls, maxdepth, settles, deferred, mock>>

\* what a Deferred that had no result fires with: deferLater's with None, the
\* wrapped function's with a value or with a Failure
Firings(origin) ==
    IF origin = "perform_delay"
    THEN {[is_error |-> FALSE, value |-> NoneV]}
    ELSE {[is_error |-> FALSE, value |-> Val(5)],
          [is_error |-> TRUE, value |-> Failure("late", "IOError", "tb")]}

\* the Deferred box i waits for fires: the callbacks deferred_to_box added run
DeferredFires(i, r) ==
    /\ pc = "idle"
    /\ i \in 1..Len(boxes)
    /\ boxes[i].settled = 0
    /\ boxes[i].origin # "kept"
    /\ r \in Firings(boxes[i].origin)
    /\ SettleBox(i, IF r.is_error
                    THEN [is_error |-> TRUE, value |-> FailureTriple(r.value)]
                    ELSE r)

NextTwisted ==
    \/ \E s \in SuccessHandlers, e \in ErrorHandlers : Attach(s, e)
    \/ TwistedPerform
    \/ RunBounce
    \/ Return
    \/ \E i \in 1..Len(boxes), r \in Firings("perform_delay") \cup Firings("deferred_fn") :
          DeferredFires(i, r)

SpecTwisted == InitTwisted /\ [][NextTwisted]_vars

----------------------------------------------------------------------------
(* Reading the history of a run through the Twisted bridge *)

\* the calls of box.succeed / box.fail on the box made for the k-th intent
\* handed to the dispatcher
SettlesOf(k) == SelectSeq(settles, LAMBDA e : e.box = k)

\* some box waits for its Deferred
Unsettled == \E i \in 1..Len(boxes) : boxes[i].settled = 0

\* the entries of the log for the pair effect.twisted.perform attached
FinalEntries == {i \in 1..Len(log) : log[i].cb.k \in {"d_callback", "d_errback"}}

----------------------------------------------------------------------------
(* C15: the result of parallel() *)

\* C15: whenever the box of a ParallelEffects intent whose sub-effects are
\* ConstantIntent Effects is settled, it is settled as a success with a list
\* as long as the list of sub-effects whose i-th element is the result of the
\* i-th sub-effect.
C15_ParallelOrder ==
    \A j \in 1..Len(settles) :
        LET p == performed[settles[j].box]
        IN  (/\ p.type = "ParallelEffects"
             /\ \A i \in 1..Len(p.effects) : p.effects[i].intent.type = "ConstantIntent") =>
                /\ ~settles[j].is_error
                /\ settles[j].value =
                      ListV([i \in 1..Len(p.effects) |-> p.effects[i].intent.result])

----------------------------------------------------------------------------
(* C17: the Deferred effect.twisted.perform returns *)

----------------------------------------------------------------------------
(* C18: deferred_performer *)

\* the performer the dispatcher of the bridge has for an intent of a type
\* whose performer is made by deferred_performer
DeferredPerformerOf(intent) ==
    IF intent.type = "meaningless" THEN "deferred_fn" ELSE TwistedMapping[intent.type]

\* the calls of the box a Deferred that fired later can have led to
LaterSettles(k, name) ==
    {<<[box |-> k, is_error |-> r.is_error,
        value |-> IF r.is_error
                  THEN ExcInfo(r.value.type, r.value.value, r.value.tb)
                  ELSE r.value]>> : r \in Firings(name)}

\* C18: for every intent handed to a performer made by deferred_performer,
\* once the performer has been called its box has been settled: once with
\* the exc_info if the wrapped function raised; once with the value if it
\* returned one that is no Deferred; once with the Deferred's result if that
\* had fired, and once with the (type, value, traceback) of its Failure if it
\* had failed; for a Deferred that had no result, not before it fires and
\* then once, with its result or the triple of its Failure.  The first pair
\* of the chain is consumed with what the box of the root was settled with.
C18_DeferredPerformer ==
    \A k \in 1..Len(performed) :
        performed[k].type \in {"meaningless", "Delay", "ParallelEffects"} =>
            LET name == DeferredPerformerOf(performed[k])
                r == DeferredBody(name, performed[k])
                s == SettlesOf(k)
                once(is_error, value) ==
                    s = <<[box |-> k, is_error |-> is_error, value |-> value]>>
            IN  /\ Len(s) <= 1
                /\ r.raised => once(TRUE, ExcInfo(r.v.type, r.v.value, "performer"))
                /\ (~r.raised /\ r.v.tag # "deferred") => once(FALSE, r.v)
                /\ (~r.raised /\ r.v.tag = "deferred") =>
                      CASE r.v.state = "fired" -> once(FALSE, r.v.result)
                        [] r.v.state = "failed" ->
                              once(TRUE, ExcInfo(r.v.result.type, r.v.result.value,
                                                 r.v.result.tb))
                        [] r.v.state = "pending" ->
                              \E i \in 1..Len(boxes) :
                                  /\ boxes[i].id = k
                                  /\ boxes[i].settled = 0 => s = <<>>
                                  /\ boxes[i].settled # 0 => s \in LaterSettles(k, name)
                /\ (k = 1 /\ s # <<>>) =>
                      /\ log # <<>>
                      /\ log[1].is_error = s[1].is_error
                      /\ log[1].value = s[1].value

\* the wrapped function returned a Deferred with no result, the Deferred
\* failed later, and the Effect's error handler was called with the triple
C18_Witness ==
    /\ pc = "idle"
    /\ boxes # <<>>
    /\ boxes[1].origin = "deferred_fn"
    /\ boxes[1].settled = 1
    /\ settles = <<[box |-> 1, is_error |-> TRUE,
                    value |-> ExcInfo("IOError", "late", "tb")]>>
    /\ log[1].cb = Ident
    /\ log[1].value = ExcInfo("IOError", "late", "tb")

----------------------------------------------------------------------------
(* A performer made by sync_performer called on its own: with an intent and *)
(* a box that records the calls and whose succeed or fail may raise, as the *)
(* continuation of a box may                                                *)

BoxError == [type |-> "RuntimeError", value |-> "continuation failed"]

\* the boxes the performer is given
MockBoxes ==
    {MockBox(s, f) : s \in {NoExc, BoxError, EbError}, f \in {NoExc, BoxError}}

\* the intents base_dispatcher has a performer made by sync_performer for
UnitIntents ==
    {ConstantIntent(Nest(d)) : d \in 0..MaxDepth}
    \cup {ConstantIntent(b) : b \in InnerEffects}
    \cup {ErrorIntent(OhDear), ErrorIntent(EbError)}

InitUnit ==
    InitWith({Effect(i, <<>>) : i \in UnitIntents}, TypeDispatcher(BaseMapping),
             MockBoxes)

\* base_dispatcher.mapping[type(intent)](dispatcher, intent, box): the
\* performer is called with the box; what leaves the call is raised
UnitCall ==
    /\ pc = "build"
    /\ mock.kind = "mock"
    /\ pc' = "idle"
    /\ mode' = "performer"
    /\ \E w \in {RunPerformer(World, dispatcher.mapping[effect.intent.type],
                              effect.intent, mock)} :
          /\ Commit(w)
          /\ raised' = w.exc
    /\ UNCHANGED <<effect, recurse_effects, driver, queue, outcome, dispatcher, mock>>

NextUnit == UnitCall

SpecUnit == InitUnit /\ [][NextUnit]_vars

----------------------------------------------------------------------------
(* C20: sync_performer *)

\* C20: once a performer made by sync_performer has been called, its box has
\* been settled exactly once: with box.succeed(result) if the function
\* returned, with box.fail(exc info) if it raised, and never both, also when
\* the continuation run inside box.succeed raised.
C20_SyncPerformerOnce ==
    mode = "performer" =>
        LET r == PerformerBody(calls[1], effect.intent)
        IN  /\ Len(settles) = 1
            /\ settles[1].is_error = r.raised
            /\ ~r.raised => settles[1].value = r.v
            /\ r.raised => settles[1].value = ExcInfo(r.v.type, r.v.value, "performer")

----------------------------------------------------------------------------
(* C21: a ComposedDispatcher and a performer that raises NoEffectHandlerError *)

\* C21: for every intent handed to the composite at most one performer is
\* called: the composite goes on to the next dispatcher only when the one
\* before has no entry for the intent, never because a performer that was
\* found and called let NoEffectHandlerError out.
C21_OnePerformer ==
    /\ Len(calls) <= Len(performed)
    /\ \A j \in 1..Len(calls) : calls[j] = "raise_no_handler" => j = Len(calls)

----------------------------------------------------------------------------
(* The program with Effects that resolve to an Effect no performer is       *)
(* registered for: as the result of the root's performer, as what a handler *)
(* returns, and as what a kept box is settled with from outside             *)

UnknownRoots ==
    {ConstantIntent(Val(0)), ConstantIntent(InnerUnknown), ErrorIntent(OhDear),
     POPOIntent}

UnknownSuccessHandlers == {NoHandler, Ret(Val(2)), Ret(InnerUnknown)}

UnknownErrorHandlers == {NoHandler, Ident, Ret(InnerUnknown)}

UnknownSettlements == Settlements \cup {[is_error |-> FALSE, value |-> InnerUnknown]}

InitUnknown ==
    InitWith({Effect(i, <<>>) : i \in UnknownRoots}, TypeDispatcher(mapping), {NoMock})

NextUnknown ==
    \/ \E s \in UnknownSuccessHandlers, e \in UnknownErrorHandlers : Attach(s, e)
    \/ \E re \in BOOLEAN : Perform(re)
    \/ \E re \in BOOLEAN : SyncPerform(re)
    \/ RunBounce
    \/ Return
    \/ \E i \in 1..Len(boxes), r \in UnknownSettlements : Settle(i, r)

SpecUnknown == InitUnknown /\ [][NextUnknown]_vars

----------------------------------------------------------------------------
(* C22: no performer for an Effect reached by flattening *)

\* the last intent handed to the dispatcher was reached by flattening and
\* the dispatcher has no performer for it
UnknownFlattened ==
    /\ Len(performed) > 1
    /\ performed[Len(performed)].type \notin DOMAIN mapping

\* C22: no error of the chain is ever a NoEffectHandlerError; and once an
\* Effect reached by flattening has been handed to a dispatcher that has no
\* performer for its intent, NoEffectHandlerError has left the call that
\* drives the trampoline (perform, or the box.succeed / box.fail from
\* outside), control is outside the core with nothing left to run, the last
\* pair consumed, if any, is the one whose handler returned that Effect, and
\* neither collector of sync_perform has been called.
C22_UnknownFlattened ==
    /\ \A i \in 1..Len(log) :
          log[i].value.tag = "exc" => log[i].value.type # NoEffectHandlerError.type
    /\ UnknownFlattened =>
          /\ pc = "idle"
          /\ queue = <<>>
          /\ raised = NoEffectHandlerError
          /\ driver = "perform" => outcome = Outcome("raised", NoneV, NoEffectHandlerError, "")
          /\ successes = <<>>
          /\ errors = <<>>
          /\ settles # <<>>
          /\ LET last == settles[Len(settles)]
             IN  IF log = <<>> \/ log[Len(log)].out.value # InnerUnknown
                 THEN /\ last.value = InnerUnknown
                      /\ \A i \in 1..Len(log) : log[i].out.value # InnerUnknown
                 ELSE \A i \in 1..Len(log) - 1 : log[i].out.value # InnerUnknown

\* a chain resumed from outside perform: a handler returned the Effect with
\* no performer, an error handler was still to come, and the error left the
\* box.succeed / box.fail call
C22_Witness ==
    /\ UnknownFlattened
    /\ driver = "box"
    /\ Len(log) = 1
    /\ Len(RootChain) >= 3
    /\ RootChain[2].error # NoHandler
    /\ raised = NoEffectHandlerError

\* the same out of perform, when every performer is synchronous
C22_WitnessSync ==
    /\ UnknownFlattened
    /\ driver = "perform"
    /\ mode = "sync_perform"
    /\ Len(log) = 1
    /\ RootChain[2].error # NoHandler
    /\ outcome.exc = NoEffectHandlerError

----------------------------------------------------------------------------
(* The program with synchronous performers only, and the trampoline's loop  *)
(* running on for as long as the call that drives it has not returned       *)

SyncRoots ==
    {ConstantIntent(Nest(d)) : d \in 0..MaxDepth}
    \cup {ConstantIntent(InnerChained), ConstantIntent(InnerErrorChained),
          ErrorIntent(OhDear)}

SyncSuccessHandlers == {NoHandler, Raise(EbError), Ret(InnerChained)}

SyncErrorHandlers == {NoHandler, Ident, Ret(Val(3))}

InitSync ==
    InitWith({Effect(i, <<>>) : i \in SyncRoots}, TypeDispatcher(mapping), {NoMock})

NextSync ==
    \/ \E s \in SyncSuccessHandlers, e \in SyncErrorHandlers : Attach(s, e)
    \/ \E re \in BOOLEAN : Perform(re)
    \/ \E re \in BOOLEAN : SyncPerform(re)
    \/ RunBounce
    \/ Return

\* a call of perform that has started goes on: the loop takes the next bounce
\* while there is one and returns when there is none
SpecSync ==
    InitSync /\ [][NextSync]_vars /\ WF_vars(RunBounce) /\ WF_vars(Return)

----------------------------------------------------------------------------
(* C23: termination of perform with synchronous performers *)

\* how many times the pair with this id has been consumed
Consumed(id) == Cardinality({i \in 1..Len(log) : log[i].id = id})

\* how many times the Effect b came up as a result and was flattened: as what
\* a performer settled its box with, or as what a handler returned
Flattened(b) ==
    IF recurse_effects
    THEN Cardinality({k \in 1..Len(settles) : settles[k].value = b})
         + Cardinality({i \in 1..Len(log) : log[i].out.value = b})
    ELSE 0

\* perform has returned with nothing left to run: every box was settled once,
\* every pair of the chain perform was given was consumed once, the pairs of
\* an inner Effect once for each time the Effect was flattened into the
\* chain, and sync_perform's collector pair holds one outcome
Terminated ==
    /\ pc = "idle"
    /\ queue = <<>>
    /\ outcome.kind # "pending"
    /\ outcome.exc \notin {NoEffectHandlerError, NotSynchronousError}
    /\ mode = "perform" => outcome = Outcome("returned", NoneV, NoExc, "")
    /\ Len(settles) = Len(performed)
    /\ \A k \in 1..Len(settles) : settles[k].box = k
    /\ \A id \in 1..Len(RootChain) : Consumed(id) = 1
    /\ \A b \in InnerEffects : \A j \in 1..Len(b.callbacks) :
          Consumed(b.callbacks[j].id) = Flattened(b)
    /\ \A i \in 1..Len(log) : IsRootId(log[i].id) \/ log[i].id \in {p.id : p \in InnerPairs}
    /\ mode = "sync_perform" => Len(successes) + Len(errors) = 1

\* C23: when every performer settles its box synchronously, once, and the
\* chain and the nesting of Effects are finite, a call of perform that has
\* started comes to its end: the work queue is empty, every pair of the
\* combined chain has been consumed exactly once and the collector pair has
\* received exactly one outcome.
C23_Terminates == (pc = "run") ~> Terminated

\* sync_perform has returned after a full chain in which an inner Effect with
\* a chain of its own was flattened more than once
C23_Witness ==
    /\ Terminated
    /\ recurse_effects
    /\ mode = "sync_perform"
    /\ Len(effect.callbacks) = MaxChain
    /\ Flattened(InnerChained) >= 2
    /\ Len(performed) >= 3

====
